---- MODULE Spec2Model ----
(***************************************************************************)
(* Offer approval and payment settlement of the neighbour help             *)
(* marketplace: the Ledger Store rows (needs, help_offers, profiles,       *)
(* commissions), the payment processor's objects (checkout sessions,       *)
(* connected accounts, transfers) and the three edge functions that move   *)
(* between them (process-payment, stripe-connect-webhook,                  *)
(* create-connect-account), each split at its awaits.                      *)
(*                                                                         *)
(* Money.  budget_amount is DECIMAL(10,2): the model holds it as a whole   *)
(* number of minor units (oere).  The handler computes in JavaScript       *)
(* numbers; the model holds those values in thousandths of the currency    *)
(* unit ("milli"), which represents budget * 0.10 and budget - commission  *)
(* exactly for every two-decimal budget.                                   *)
(***************************************************************************)
EXTENDS Integers, Sequences, FiniteSets, TLC

\* ---------------------------------------------------------------- bounds
MaxCreated == 4         \* objects the processor creates: sessions, transfers, accounts
MaxBudget == 20000      \* largest budget of the calculator runs, in minor units

\* ------------------------------------------------------------- constants
Null == -1              \* SQL NULL / JavaScript null or undefined in a number column
CommissionRatePct == 10 \* const commissionRate = 0.10, in percent
StatusOk == 200         \* the webhook's response { received: true }
StatusError == 500      \* the webhook's response { error } of the catch
\* A text field of the metadata that the event does not carry: undefined
\* after the destructuring (a number-valued field that is absent is Null).
Undefined == "undefined"

Users == {"alice", "bob"}
NeedIds == {"n1"}
Owner == [n \in NeedIds |-> "alice"]
Budgets == {9999}
Workers == {"w1", "w2"}
\* The users who offer help, and so the ones a transfer can go to.
Helpers == {u \in Users : \A n \in NeedIds : Owner[n] # u}

VARIABLES
    needs,        \* public.needs: NeedIds -> row
    offers,       \* public.help_offers: sequence of rows, the id is the index
    profiles,     \* public.profiles: Users -> row (the Stripe columns)
    commissions,  \* public.commissions: sequence of rows
    sessions,     \* processor: checkout sessions, the id is the index
    urls,         \* ids of the sessions whose checkout URL was returned to a client
    accounts,     \* processor: connected accounts, the id is the index
    transfers,    \* processor: transfers, the id is the index
    pageNeed,     \* NeedDetail page state `need` of the owner, once loaded: NeedIds -> status
    pay,          \* the process-payment request in flight
    hook,         \* the stripe-connect-webhook requests in flight: Workers -> locals
    conn,         \* the create-connect-account request in flight
    calc,         \* the calculator run: [budget, out]
    notifications \* public.notifications: sequence of rows

vars == <<needs, offers, profiles, commissions, sessions, urls, accounts,
          transfers, pageNeed, pay, hook, conn, calc, notifications>>

\* The objects the processor holds for helper u: the sessions that pay u, the
\* transfers to u, the connected accounts of u.
CreatedFor(u) ==
    Cardinality({s \in 1..Len(sessions) : sessions[s].helper_user_id = u})
    + Cardinality({k \in 1..Len(transfers) : transfers[k].helper_user_id = u})
    + Cardinality({a \in 1..Len(accounts) : accounts[a].user_id = u})

\* The processor still creates objects for helper u (the bound of the model).
ProcessorCreates(u) == CreatedFor(u) < MaxCreated

\* ------------------------------------------------------- payment calculation
\* A two-decimal amount as a JavaScript number, in milli.
ToMilli(cents) == cents * 10

\* Math.round(x * 100) of a non-negative x held in milli: half rounds up.
MathRoundCents(milli) == (milli + 5) \div 10

\* const originalAmount = need.budget_amount || 0;
OriginalAmount(budget_amount) ==
    IF budget_amount = Null \/ budget_amount = 0 THEN 0 ELSE ToMilli(budget_amount)

\* const commissionAmount = originalAmount * commissionRate;
CommissionAmount(originalAmount) == (originalAmount * CommissionRatePct) \div 100

\* Mutant of HelperAmount: the helper's share rounded to minor units on its own.
HelperAmountRounded(originalAmount, commissionAmount) ==
    MathRoundCents(originalAmount - commissionAmount) * 10

\* const helperAmount = originalAmount - commissionAmount;
HelperAmount(originalAmount, commissionAmount) == originalAmount - commissionAmount

PaymentCalculation(budget_amount) ==
    LET originalAmount == OriginalAmount(budget_amount)
        commissionAmount == CommissionAmount(originalAmount)
    IN  [originalAmount |-> originalAmount,
         commissionAmount |-> commissionAmount,
         helperAmount |-> HelperAmount(originalAmount, commissionAmount),
         unit_amount |-> MathRoundCents(originalAmount)]

\* ------------------------------------------------------------------ rows
IdleLocals == [pc |-> "idle"]

NoOut == [originalAmount |-> 0, commissionAmount |-> 0, helperAmount |-> 0, unit_amount |-> 0]
NoCalc == [budget |-> Null, out |-> NoOut, done |-> FALSE]

InitLedger ==
    /\ offers = <<>>
    /\ profiles = [u \in Users |->
                     [stripe_account_id |-> Null, stripe_onboarding_complete |-> FALSE]]
    /\ commissions = <<>>
    /\ sessions = <<>>
    /\ urls = {}
    /\ accounts = <<>>
    /\ transfers = <<>>
    /\ pageNeed = [n \in NeedIds |-> "open"]
    /\ pay = IdleLocals
    /\ hook = [w \in Workers |-> IdleLocals]
    /\ conn = IdleLocals
    /\ notifications = <<>>

Init ==
    /\ \E b \in Budgets :
         needs = [n \in NeedIds |->
                    [user_id |-> Owner[n], budget_amount |-> b, status |-> "open"]]
    /\ InitLedger
    /\ calc = NoCalc

\* ------------------------------------------------------- NeedDetail page
\* fetchNeed: the page's `need` becomes the row as it is now.
fetchNeed(n) ==
    /\ pageNeed' = [pageNeed EXCEPT ![n] = needs[n].status]
    /\ UNCHANGED <<needs, offers, profiles, commissions, sessions, urls, accounts,
                   transfers, pay, hook, conn, calc, notifications>>

\* Variant of HasOffer: the table without UNIQUE(need_id, helper_user_id).
NoUniqueOffer(n, u) == FALSE

\* UNIQUE(need_id, helper_user_id): the pair is taken.
HasOffer(n, u) == \E i \in 1..Len(offers) :
                     offers[i].need_id = n /\ offers[i].helper_user_id = u

\* handleOfferHelp: insert with helper_approved: true.  The insert policy
\* wants helper_user_id = auth.uid() on a need of another user, the table
\* UNIQUE(need_id, helper_user_id); a refused insert changes nothing.
handleOfferHelp(u, n) ==
    /\ offers' = IF u # needs[n].user_id /\ ~HasOffer(n, u)
                 THEN Append(offers, [need_id |-> n, helper_user_id |-> u,
                                      requester_approved |-> FALSE,
                                      helper_approved |-> TRUE])
                 ELSE offers
    /\ UNCHANGED <<needs, profiles, commissions, sessions, urls, accounts,
                   transfers, pageNeed, pay, hook, conn, calc, notifications>>

\* Variant of RequesterApproves: the whole row is written, the helper's flag
\* with the default of the column.
RequesterWritesRow(help_offers, i) ==
    [help_offers EXCEPT ![i] = [need_id |-> @.need_id, helper_user_id |-> @.helper_user_id,
                                requester_approved |-> TRUE, helper_approved |-> FALSE]]

\* Variant of RequesterApproves: the request flips the flag it finds.
RequesterToggles(help_offers, i) == [help_offers EXCEPT ![i].requester_approved = ~@]

\* .update({ requester_approved: true }).eq('id', offerId): one UPDATE
\* statement that sets the one column of the one row.
RequesterApproves(help_offers, i) == [help_offers EXCEPT ![i].requester_approved = TRUE]

\* Variant of HelperApproves: the whole row is written, the requester's flag
\* with the default of the column.
HelperWritesRow(help_offers, i) ==
    [help_offers EXCEPT ![i] = [need_id |-> @.need_id, helper_user_id |-> @.helper_user_id,
                                requester_approved |-> FALSE, helper_approved |-> TRUE]]

\* .update({ helper_approved: true }).eq('id', myOffer.id)
HelperApproves(help_offers, i) == [help_offers EXCEPT ![i].helper_approved = TRUE]

\* handleApproveOffer: the owner's update { requester_approved: true }.
handleApproveOffer(i) ==
    /\ i \in 1..Len(offers)
    /\ offers' = RequesterApproves(offers, i)
    /\ UNCHANGED <<needs, profiles, commissions, sessions, urls, accounts,
                   transfers, pageNeed, pay, hook, conn, calc, notifications>>

\* handleApproveFromHelper: the helper's update { helper_approved: true }.
handleApproveFromHelper(i) ==
    /\ i \in 1..Len(offers)
    /\ offers' = HelperApproves(offers, i)
    /\ UNCHANGED <<needs, profiles, commissions, sessions, urls, accounts,
                   transfers, pageNeed, pay, hook, conn, calc, notifications>>

\* Variant of canShowContact: || for &&.
canShowContactEither(offer) == offer.requester_approved \/ offer.helper_approved

canShowContact(offer) == offer.requester_approved /\ offer.helper_approved

\* Owner's view, per offer: {canShowContact(offer) && (<div> Kontaktuppgifter,
\* offer.helperPhone, offer.helperApartment)}.
ShowsHelperContact(i) == canShowContact(offers[i])

\* Helper's view: {myOffer && canShowContact(myOffer) && (<div>
\* Kontaktuppgifter, need.ownerPhone, need.ownerApartment)}, myOffer the
\* offer of the user among the offers of the need.
ShowsOwnerContact(u, n) ==
    \E i \in 1..Len(offers) :
        /\ offers[i].need_id = n
        /\ offers[i].helper_user_id = u
        /\ canShowContact(offers[i])

\* ------------------------------------------- process-payment (edge function)
UNCH_Pay == UNCHANGED <<needs, offers, profiles, accounts, transfers, pageNeed,
                        hook, conn, calc, notifications>>

\* What the handler answers: status 200 with the checkout URL, or status 500
\* with the message of the thrown error.
Responded(response, session) ==
    [pc |-> "responded", need_id |-> pay.need_id, help_offer_id |-> pay.help_offer_id,
     response |-> response, session |-> session]

\* Mutant of PayAccepts: the approval check with && for ||.
PayAcceptsEitherApproval(need_id, help_offer_id) ==
    /\ need_id \in DOMAIN needs
    /\ help_offer_id \in 1..Len(offers)
    /\ (offers[help_offer_id].requester_approved \/ offers[help_offer_id].helper_approved)

\* The request body, the two row reads and the approval check: what the
\* handler wants before the payment calculation.
PayAccepts(need_id, help_offer_id) ==
    /\ need_id \in DOMAIN needs
    /\ help_offer_id \in 1..Len(offers)
    /\ offers[help_offer_id].requester_approved
    /\ offers[help_offer_id].helper_approved

\* The request up to the payment calculation, or the thrown error.
PayRequest(need_id, help_offer_id) ==
    /\ pay.pc = "idle"
    /\ pay' = IF PayAccepts(need_id, help_offer_id)
              THEN LET need == needs[need_id]
                       offer == offers[help_offer_id]
                       c == PaymentCalculation(need.budget_amount)
                   IN  [pc |-> "create_session",
                        need_id |-> need_id,
                        help_offer_id |-> help_offer_id,
                        need_status |-> need.status,
                        helper_user_id |-> offer.helper_user_id,
                        requester_user_id |-> need.user_id,
                        originalAmount |-> c.originalAmount,
                        commissionAmount |-> c.commissionAmount,
                        helperAmount |-> c.helperAmount,
                        unit_amount |-> c.unit_amount]
              ELSE [pc |-> "responded", need_id |-> need_id,
                    help_offer_id |-> help_offer_id,
                    response |-> "Both parties must approve the offer before payment",
                    session |-> Null]
    /\ UNCHANGED <<commissions, sessions, urls>>
    /\ UNCH_Pay

\* handlePayment: the owner's button, rendered when
\* canShowContact(offer) && need.budget_amount && need.status !== 'completed'
\* on the page's state; the offers of the page are those of the need, and an
\* offer the page shows approved is approved (no update clears a flag).
handlePayment(n, i) ==
    /\ offers[i].need_id = n
    /\ canShowContact(offers[i])
    /\ needs[n].budget_amount # Null /\ needs[n].budget_amount # 0
    /\ pageNeed[n] # "completed"
    /\ PayRequest(n, i)

\* stripe.checkout.sessions.create: the processor stores the session.
PaySessionCreated ==
    /\ pay.pc = "create_session"
    /\ ProcessorCreates(pay.helper_user_id)
    /\ sessions' = Append(sessions,
           [unit_amount |-> pay.unit_amount,
            need_id |-> pay.need_id,
            help_offer_id |-> pay.help_offer_id,
            commission_amount |-> pay.commissionAmount,
            helper_amount |-> pay.helperAmount,
            helper_user_id |-> pay.helper_user_id,
            requester_user_id |-> pay.requester_user_id])
    /\ pay' = [pay EXCEPT !.pc = "insert_commission"] @@ [session |-> Len(sessions) + 1]
    /\ UNCHANGED <<commissions, urls>>
    /\ UNCH_Pay

\* stripe.checkout.sessions.create throws: the catch answers 500.
PaySessionFailed ==
    /\ pay.pc = "create_session"
    /\ pay' = Responded("processor error", Null)
    /\ UNCHANGED <<commissions, sessions, urls>>
    /\ UNCH_Pay

CommissionRow ==
    [need_id |-> pay.need_id,
     help_offer_id |-> pay.help_offer_id,
     helper_user_id |-> pay.helper_user_id,
     requester_user_id |-> pay.requester_user_id,
     original_amount |-> pay.originalAmount,
     commission_amount |-> pay.commissionAmount,
     stripe_payment_intent_id |-> pay.session,
     stripe_transfer_id |-> Null,
     completed_at |-> Null,
     status |-> "pending"]

\* The commissions insert: the row is stored, or commissionError is logged.
InsertCommission(ok) == IF ok THEN Append(commissions, CommissionRow) ELSE commissions

\* "Create commission record (pending)" and the response { url: session.url }.
PayInsertAndRespond ==
    /\ pay.pc = "insert_commission"
    /\ \E ok \in BOOLEAN : commissions' = InsertCommission(ok)
    /\ urls' = urls \cup {pay.session}
    /\ pay' = Responded("url", pay.session)
    /\ UNCHANGED sessions
    /\ UNCH_Pay

\* handlePayment after invoke: window.open(data.url) or the error toast.
PayResponseHandled ==
    /\ pay.pc = "responded"
    /\ pay' = IdleLocals
    /\ UNCHANGED <<commissions, sessions, urls>>
    /\ UNCH_Pay

\* ---------------------------------- stripe-connect-webhook (edge function)
UNCH_Hook == UNCHANGED <<offers, sessions, urls, accounts, pageNeed, pay, conn, calc, notifications>>

\* The events the processor sends: checkout.session.completed for a session
\* whose URL a client holds, account.updated for a connected account.
CheckoutEvents ==
    {[type |-> "checkout.session.completed", session |-> s, payment_status |-> ps] :
        s \in urls, ps \in {"paid", "unpaid"}}

AccountEvents ==
    {[type |-> "account.updated", account |-> a,
      details_submitted |-> ds, payouts_enabled |-> pe] :
        a \in 1..Len(accounts), ds \in BOOLEAN, pe \in BOOLEAN}

Metadata(ev) == sessions[ev.session]

\* The negation of (!helper_user_id || !helper_amount): the two fields the
\* handler looks for before it goes on.
CarriesTransferMetadata(metadata) ==
    metadata.helper_user_id # Undefined /\ metadata.helper_amount # Null

\* checkout.session.completed: the event is parsed and, when it is paid and
\* carries helper_user_id and helper_amount, the helper's profile is read.
HookCheckoutReceived(w, ev) ==
    /\ hook[w].pc = "idle"
    /\ ev \in CheckoutEvents
    /\ hook' = [hook EXCEPT ![w] =
                  IF ev.payment_status = "paid" /\ CarriesTransferMetadata(Metadata(ev))
                  THEN [pc |-> "profile_read", ev |-> ev,
                        helperProfile |-> profiles[Metadata(ev).helper_user_id]]
                  ELSE IdleLocals]
    /\ UNCHANGED <<needs, profiles, commissions, transfers>>
    /\ UNCH_Hook

\* Mutant of AccountIncomplete: the onboarding flag is not looked at.
AccountMissing(helperProfile) == helperProfile.stripe_account_id = Null

\* !helperProfile?.stripe_account_id || !helperProfile.stripe_onboarding_complete
AccountIncomplete(helperProfile) ==
    \/ helperProfile.stripe_account_id = Null
    \/ ~helperProfile.stripe_onboarding_complete

\* commissions.update(row).eq("help_offer_id", help_offer_id)
UpdateCommissions(help_offer_id, status, transfer_id, completed_at) ==
    [i \in 1..Len(commissions) |->
        IF commissions[i].help_offer_id = help_offer_id
        THEN [commissions[i] EXCEPT !.status = status,
                                    !.stripe_transfer_id = transfer_id,
                                    !.completed_at = completed_at]
        ELSE commissions[i]]

\* The helper has no complete connected account: the commissions of the
\* offer are set to transfer_pending and the handler breaks.
HookTransferPending(w) ==
    /\ hook[w].pc = "profile_read"
    /\ AccountIncomplete(hook[w].helperProfile)
    /\ commissions' = [i \in 1..Len(commissions) |->
          IF commissions[i].help_offer_id = Metadata(hook[w].ev).help_offer_id
          THEN [commissions[i] EXCEPT !.status = "transfer_pending"]
          ELSE commissions[i]]
    /\ hook' = [hook EXCEPT ![w] = IdleLocals]
    /\ UNCHANGED <<needs, profiles, transfers>>
    /\ UNCH_Hook

\* stripe.transfers.create of Math.round(parseFloat(helper_amount) * 100).
\* `session` records the event that asked for the transfer.
HookTransferCreated(w) ==
    /\ hook[w].pc = "profile_read"
    /\ ~AccountIncomplete(hook[w].helperProfile)
    /\ ProcessorCreates(Metadata(hook[w].ev).helper_user_id)
    /\ LET m == Metadata(hook[w].ev)
       IN  transfers' = Append(transfers,
               [amount |-> MathRoundCents(m.helper_amount),
                destination |-> hook[w].helperProfile.stripe_account_id,
                need_id |-> m.need_id,
                help_offer_id |-> m.help_offer_id,
                helper_user_id |-> m.helper_user_id,
                session |-> hook[w].ev.session])
    /\ hook' = [hook EXCEPT ![w] = [pc |-> "transferred", ev |-> hook[w].ev,
                                    transfer |-> Len(transfers) + 1]]
    /\ UNCHANGED <<needs, profiles, commissions>>
    /\ UNCH_Hook

\* Mutant of HookTransferFailed: the commission is marked completed before
\* the transfer call, which then throws.
HookTransferFailedAfterWrite(w) ==
    /\ hook[w].pc = "profile_read"
    /\ ~AccountIncomplete(hook[w].helperProfile)
    /\ commissions' = UpdateCommissions(Metadata(hook[w].ev).help_offer_id,
                          "completed", Null, Null)
    /\ hook' = [hook EXCEPT ![w] = IdleLocals]
    /\ UNCHANGED <<needs, profiles, transfers>>
    /\ UNCH_Hook

\* transfers.create throws: the catch answers 500, nothing is written.
HookTransferFailed(w) ==
    /\ hook[w].pc = "profile_read"
    /\ ~AccountIncomplete(hook[w].helperProfile)
    /\ hook' = [hook EXCEPT ![w] = IdleLocals]
    /\ UNCHANGED <<needs, profiles, commissions, transfers>>
    /\ UNCH_Hook

\* "Update commission record": completed, the transfer id, the time (the
\* model's time of a completion is the id of the handler's transfer).
HookCommissionCompleted(w) ==
    /\ hook[w].pc = "transferred"
    /\ commissions' = UpdateCommissions(Metadata(hook[w].ev).help_offer_id,
                          "completed", hook[w].transfer, hook[w].transfer)
    /\ hook' = [hook EXCEPT ![w].pc = "commission_updated"]
    /\ UNCHANGED <<needs, profiles, transfers>>
    /\ UNCH_Hook

\* "Update need status"
HookNeedCompleted(w) ==
    /\ hook[w].pc = "commission_updated"
    /\ needs' = [needs EXCEPT ![Metadata(hook[w].ev).need_id].status = "completed"]
    /\ hook' = [hook EXCEPT ![w] = IdleLocals]
    /\ UNCHANGED <<profiles, commissions, transfers>>
    /\ UNCH_Hook

\* Mutant of IsComplete: || for &&.
IsCompleteEither(details_submitted, payouts_enabled) == details_submitted \/ payouts_enabled

\* const isComplete = account.details_submitted && account.payouts_enabled;
IsComplete(details_submitted, payouts_enabled) == details_submitted /\ payouts_enabled

\* account.updated: the profile of account.metadata.user_id gets
\* stripe_onboarding_complete: isComplete.
HookAccountUpdated(w, ev) ==
    /\ hook[w].pc = "idle"
    /\ ev \in AccountEvents
    /\ profiles' = [profiles EXCEPT ![accounts[ev.account].user_id].stripe_onboarding_complete =
                       IsComplete(ev.details_submitted, ev.payouts_enabled)]
    /\ UNCHANGED <<needs, commissions, transfers, hook>>
    /\ UNCH_Hook

\* The events of the kinds the switch has no case for.
OtherEvents == {[type |-> t] : t \in {"payment_intent.succeeded", "transfer.created"}}

\* Variant of ResponseStatus: the catch's answer whatever happened.
ResponseAlwaysError(threw) == StatusError

\* The status of the handler's response: 200 after the switch, 500 from the
\* catch.
ResponseStatus(threw) == IF threw THEN StatusError ELSE StatusOk

\* default: logStep("Unhandled event type"), then the response after the
\* switch; the handler awaits nothing on the way.
HookUnhandled(w, ev) ==
    /\ hook[w].pc = "idle"
    /\ ev \in OtherEvents
    /\ hook' = [hook EXCEPT ![w] = [pc |-> "responded", ev |-> ev,
                                    status |-> ResponseStatus(FALSE)]]
    /\ UNCHANGED <<needs, profiles, commissions, transfers>>
    /\ UNCH_Hook

\* The response has gone out.
HookResponded(w) ==
    /\ hook[w].pc = "responded"
    /\ hook' = [hook EXCEPT ![w] = IdleLocals]
    /\ UNCHANGED <<needs, profiles, commissions, transfers>>
    /\ UNCH_Hook

\* ---------------------------------- create-connect-account (edge function)
UNCH_Conn == UNCHANGED <<needs, offers, commissions, sessions, urls, transfers,
                         pageNeed, pay, hook, calc, notifications>>

\* The profile read.  With a stripe_account_id the handler only makes an
\* onboarding link (or answers already_complete) and writes nothing.
ConnRequest(u) ==
    /\ conn.pc = "idle"
    /\ conn' = IF profiles[u].stripe_account_id # Null
               THEN IdleLocals
               ELSE [pc |-> "create_account", user |-> u]
    /\ UNCHANGED <<profiles, accounts>>
    /\ UNCH_Conn

\* stripe.accounts.create with metadata.user_id, or the call throws.
ConnAccountCreated ==
    /\ conn.pc = "create_account"
    /\ ProcessorCreates(conn.user)
    /\ accounts' = Append(accounts, [user_id |-> conn.user])
    /\ conn' = [pc |-> "save_account", user |-> conn.user, account |-> Len(accounts) + 1]
    /\ UNCHANGED profiles
    /\ UNCH_Conn

ConnAccountFailed ==
    /\ conn.pc = "create_account"
    /\ conn' = IdleLocals
    /\ UNCHANGED <<profiles, accounts>>
    /\ UNCH_Conn

\* "Save the account ID to the user's profile"; on updateError the handler
\* throws and nothing is saved.
ConnSaveAccount ==
    /\ conn.pc = "save_account"
    /\ \E ok \in BOOLEAN :
         profiles' = IF ok
                     THEN [profiles EXCEPT ![conn.user] =
                             [stripe_account_id |-> conn.account,
                              stripe_onboarding_complete |-> FALSE]]
                     ELSE profiles
    /\ conn' = IdleLocals
    /\ UNCHANGED accounts
    /\ UNCH_Conn

\* ------------------------------------------------------------ specification
\* Every step but the arrival of a checkout.session.completed event.
Others ==
    \/ \E n \in NeedIds : fetchNeed(n)
    \/ \E u \in Users, n \in NeedIds : handleOfferHelp(u, n)
    \/ \E i \in 1..Len(offers) : handleApproveOffer(i)
    \/ \E i \in 1..Len(offers) : handleApproveFromHelper(i)
    \/ \E n \in NeedIds, i \in 1..Len(offers) : handlePayment(n, i)
    \/ \E n \in NeedIds, i \in 1..Len(offers) : PayRequest(n, i)
    \/ PaySessionCreated
    \/ PaySessionFailed
    \/ PayInsertAndRespond
    \/ PayResponseHandled
    \/ \E w \in Workers : HookTransferPending(w)
    \/ \E w \in Workers : HookTransferCreated(w)
    \/ \E w \in Workers : HookTransferFailed(w)
    \/ \E w \in Workers : HookCommissionCompleted(w)
    \/ \E w \in Workers : HookNeedCompleted(w)
    \/ \E w \in Workers, ev \in AccountEvents : HookAccountUpdated(w, ev)
    \/ \E u \in Helpers : ConnRequest(u)
    \/ ConnAccountCreated
    \/ ConnAccountFailed
    \/ ConnSaveAccount

\* The processor delivers checkout.session.completed to a free handler.
Deliver == \E w \in Workers, ev \in CheckoutEvents : HookCheckoutReceived(w, ev)

Next == Deliver \/ Others

Spec == Init /\ [][Next]_vars

\* A request that has started runs to its response: every await of a handler
\* returns, and a transfer that is asked for again and again is made in the
\* end.  Nothing obliges a user to act, or the processor to send again an
\* event that was answered with 200.
HandlersRun ==
    /\ WF_vars(PaySessionCreated \/ PaySessionFailed)
    /\ WF_vars(PayInsertAndRespond)
    /\ WF_vars(PayResponseHandled)
    /\ WF_vars(\E w \in Workers :
                  HookTransferPending(w) \/ HookTransferCreated(w) \/ HookTransferFailed(w))
    /\ SF_vars(\E w \in Workers : HookTransferCreated(w))
    /\ WF_vars(\E w \in Workers : HookCommissionCompleted(w))
    /\ WF_vars(\E w \in Workers : HookNeedCompleted(w))
    /\ WF_vars(ConnAccountCreated \/ ConnAccountFailed)
    /\ WF_vars(ConnSaveAccount)

SpecLive == Init /\ [][Next]_vars /\ HandlersRun

\* Webhook deliveries one after the other: checkout.session.completed
\* arrives when no handler of the webhook is in flight.
NoDelivery == \A w \in Workers : hook[w].pc = "idle"

NextSeq == (NoDelivery /\ Deliver) \/ Others

SpecSeq == Init /\ [][NextSeq]_vars

\* The payment calculation alone, on every two-decimal budget up to MaxBudget
\* and on a need without budget.
InitCalc ==
    /\ needs = [n \in NeedIds |->
                  [user_id |-> Owner[n], budget_amount |-> Null, status |-> "open"]]
    /\ InitLedger
    /\ \E b \in {Null} \cup 0..MaxBudget :
         calc = [budget |-> b, out |-> NoOut, done |-> FALSE]

RunCalculation ==
    /\ ~calc.done
    /\ calc' = [budget |-> calc.budget, out |-> PaymentCalculation(calc.budget),
                done |-> TRUE]
    /\ UNCHANGED <<needs, offers, profiles, commissions, sessions, urls, accounts,
                   transfers, pageNeed, pay, hook, conn, notifications>>

SpecCalc == InitCalc /\ [][RunCalculation]_vars

\* The offers of two needs of one owner and two neighbours who help, the
\* first offer stored with the defaults of the table (both flags false).
Neighbours == {"alice", "bob", "carol"}
OwnedNeeds == {"n1", "n2"}

InitWide ==
    /\ needs = [n \in OwnedNeeds |->
                  [user_id |-> "alice", budget_amount |-> 9999, status |-> "open"]]
    /\ commissions = <<>>
    /\ sessions = <<>>
    /\ urls = {}
    /\ transfers = <<>>
    /\ pageNeed = [n \in OwnedNeeds |-> "open"]
    /\ pay = IdleLocals
    /\ conn = IdleLocals
    /\ calc = NoCalc
    /\ notifications = <<>>

InitOffers ==
    /\ InitWide
    /\ hook = [w \in Workers |-> IdleLocals]
    /\ offers = <<[need_id |-> "n1", helper_user_id |-> "bob",
                   requester_approved |-> FALSE, helper_approved |-> FALSE]>>
    /\ profiles = [u \in Neighbours |->
                     [stripe_account_id |-> Null, stripe_onboarding_complete |-> FALSE]]
    /\ accounts = <<>>

NextOffers ==
    \/ \E u \in DOMAIN profiles, n \in DOMAIN needs : handleOfferHelp(u, n)
    \/ \E i \in 1..Len(offers) : handleApproveOffer(i)
    \/ \E i \in 1..Len(offers) : handleApproveFromHelper(i)

SpecOffers == InitOffers /\ [][NextOffers]_vars

\* Offers and their settlement: the two needs, the offer stored with the
\* defaults, both helpers with a connected account whose onboarding is
\* complete, one handler of the webhook.
InitSettle ==
    /\ InitWide
    /\ hook = [w \in {"w1"} |-> IdleLocals]
    /\ offers = <<[need_id |-> "n1", helper_user_id |-> "bob",
                   requester_approved |-> FALSE, helper_approved |-> FALSE]>>
    /\ profiles = [u \in Neighbours |->
                     IF u = "alice"
                     THEN [stripe_account_id |-> Null, stripe_onboarding_complete |-> FALSE]
                     ELSE [stripe_account_id |-> IF u = "bob" THEN 1 ELSE 2,
                           stripe_onboarding_complete |-> TRUE]]
    /\ accounts = <<[user_id |-> "bob"], [user_id |-> "carol"]>>

\* The processor still creates sessions and transfers (the bound of SpecSettle).
SettleCreates == Len(sessions) + Len(transfers) < MaxCreated

NextSettle ==
    \/ \E u \in DOMAIN profiles : handleOfferHelp(u, "n1")
    \/ \E i \in 1..Len(offers) : handleApproveOffer(i)
    \/ \E i \in 1..Len(offers) : handleApproveFromHelper(i)
    \/ \E n \in DOMAIN needs, i \in 1..Len(offers) : handlePayment(n, i)
    \/ \E n \in DOMAIN needs, i \in 1..Len(offers) : PayRequest(n, i)
    \/ SettleCreates /\ PaySessionCreated
    \/ PaySessionFailed
    \/ PayInsertAndRespond
    \/ PayResponseHandled
    \/ \E w \in DOMAIN hook, ev \in CheckoutEvents : HookCheckoutReceived(w, ev)
    \/ \E w \in DOMAIN hook : SettleCreates /\ HookTransferCreated(w)
    \/ \E w \in DOMAIN hook : HookTransferFailed(w)
    \/ \E w \in DOMAIN hook : HookCommissionCompleted(w)
    \/ \E w \in DOMAIN hook : HookNeedCompleted(w)

SpecSettle == InitSettle /\ [][NextSettle]_vars

\* Offers and the payment requests for them, without the webhook.
NextContact ==
    \/ \E u \in DOMAIN profiles : handleOfferHelp(u, "n1")
    \/ \E i \in 1..Len(offers) : handleApproveOffer(i)
    \/ \E i \in 1..Len(offers) : handleApproveFromHelper(i)
    \/ \E n \in DOMAIN needs, i \in 1..Len(offers) : handlePayment(n, i)
    \/ \E n \in DOMAIN needs, i \in 1..Len(offers) : PayRequest(n, i)
    \/ SettleCreates /\ PaySessionCreated
    \/ PaySessionFailed
    \/ PayInsertAndRespond
    \/ PayResponseHandled

SpecContact == InitSettle /\ [][NextContact]_vars

\* The webhook on events of any content.  The handler verifies no signature,
\* so the session object of a checkout.session.completed event is whatever
\* was posted: the first session is one that process-payment did not create,
\* with any of the four metadata fields absent.  The offer of bob on n1 is
\* mutually approved and bob's account is onboarded.
PostedSessions ==
    [unit_amount : {9999}, need_id : {"n1", Undefined}, help_offer_id : {1, Null},
     commission_amount : {9999}, helper_amount : {89991, Null},
     helper_user_id : {"bob", Undefined}, requester_user_id : {"alice"}]

InitEvents ==
    /\ needs = [n \in NeedIds |->
                  [user_id |-> Owner[n], budget_amount |-> 9999, status |-> "open"]]
    /\ offers = <<[need_id |-> "n1", helper_user_id |-> "bob",
                   requester_approved |-> TRUE, helper_approved |-> TRUE]>>
    /\ profiles = [u \in Users |->
                     IF u = "bob"
                     THEN [stripe_account_id |-> 1, stripe_onboarding_complete |-> TRUE]
                     ELSE [stripe_account_id |-> Null, stripe_onboarding_complete |-> FALSE]]
    /\ accounts = <<[user_id |-> "bob"]>>
    /\ commissions = <<>>
    /\ \E posted \in PostedSessions : sessions = <<posted>>
    /\ urls = {1}
    /\ transfers = <<>>
    /\ pageNeed = [n \in NeedIds |-> "open"]
    /\ pay = IdleLocals
    /\ hook = [w \in {"w1"} |-> IdleLocals]
    /\ conn = IdleLocals
    /\ calc = NoCalc
    /\ notifications = <<>>

NextEvents ==
    \/ \E n \in NeedIds, i \in 1..Len(offers) : handlePayment(n, i)
    \/ PaySessionCreated
    \/ PaySessionFailed
    \/ PayInsertAndRespond
    \/ PayResponseHandled
    \/ \E w \in DOMAIN hook, ev \in CheckoutEvents : HookCheckoutReceived(w, ev)
    \/ \E w \in DOMAIN hook, ev \in AccountEvents : HookAccountUpdated(w, ev)
    \/ \E w \in DOMAIN hook, ev \in OtherEvents : HookUnhandled(w, ev)
    \/ \E w \in DOMAIN hook : HookResponded(w)
    \/ \E w \in DOMAIN hook : HookTransferPending(w)
    \/ \E w \in DOMAIN hook : HookTransferCreated(w)
    \/ \E w \in DOMAIN hook : HookTransferFailed(w)
    \/ \E w \in DOMAIN hook : HookCommissionCompleted(w)
    \/ \E w \in DOMAIN hook : HookNeedCompleted(w)

SpecEvents == InitEvents /\ [][NextEvents]_vars

\* ------------------------------------- help_offers behind row level security
\* What an authenticated user's own request to the table may do: the rows and
\* columns are the caller's choice, the policies and constraints the store's.
OwnNeeds(uid) == {n \in DOMAIN needs : needs[n].user_id = uid}

\* The rows a request can carry.
OfferRows ==
    [need_id : DOMAIN needs, helper_user_id : DOMAIN profiles,
     requester_approved : BOOLEAN, helper_approved : BOOLEAN]

\* "Users can create offers for others needs": WITH CHECK
\* (helper_user_id = auth.uid() AND need_id NOT IN (own needs)).
InsertPolicy(uid, row) == row.helper_user_id = uid /\ row.need_id \notin OwnNeeds(uid)

\* "Helpers can update their own offers" and "Requesters can update offers
\* for their needs": two permissive policies FOR UPDATE with USING only, so
\* the old row and the new row each pass when one of the two admits it.
UpdatePolicy(uid, row) == row.helper_user_id = uid \/ row.need_id \in OwnNeeds(uid)

\* "Helpers can delete their own offers"
DeletePolicy(uid, row) == row.helper_user_id = uid

\* UNIQUE(need_id, helper_user_id) on a table.
UniqueOffers(help_offers) ==
    \A i, j \in 1..Len(help_offers) :
        (help_offers[i].need_id = help_offers[j].need_id
         /\ help_offers[i].helper_user_id = help_offers[j].helper_user_id) => i = j

\* INSERT by uid; a refused insert changes nothing.
StoreInsert(uid, row) ==
    /\ offers' = IF InsertPolicy(uid, row) /\ UniqueOffers(Append(offers, row))
                 THEN Append(offers, row)
                 ELSE offers
    /\ UNCHANGED <<needs, profiles, commissions, sessions, urls, accounts,
                   transfers, pageNeed, pay, hook, conn, calc, notifications>>

\* UPDATE of row i by uid to the row `row`; a row the policies hide or a new
\* row they refuse changes nothing.
StoreUpdate(uid, i, row) ==
    /\ i \in 1..Len(offers)
    /\ offers' = IF /\ UpdatePolicy(uid, offers[i])
                    /\ UpdatePolicy(uid, row)
                    /\ UniqueOffers([offers EXCEPT ![i] = row])
                 THEN [offers EXCEPT ![i] = row]
                 ELSE offers
    /\ UNCHANGED <<needs, profiles, commissions, sessions, urls, accounts,
                   transfers, pageNeed, pay, hook, conn, calc, notifications>>

\* DELETE of row i by uid.
StoreDelete(uid, i) ==
    /\ i \in 1..Len(offers)
    /\ offers' = IF DeletePolicy(uid, offers[i])
                 THEN [k \in 1..(Len(offers) - 1) |-> IF k < i THEN offers[k] ELSE offers[k + 1]]
                 ELSE offers
    /\ UNCHANGED <<needs, profiles, commissions, sessions, urls, accounts,
                   transfers, pageNeed, pay, hook, conn, calc, notifications>>

\* Two users, each the owner of one need.
InitPolicy ==
    /\ needs = [n \in {"n1", "n2"} |->
                  [user_id |-> IF n = "n1" THEN "alice" ELSE "bob",
                   budget_amount |-> 9999, status |-> "open"]]
    /\ InitLedger
    /\ calc = NoCalc

NextPolicy ==
    \/ \E uid \in DOMAIN profiles, row \in OfferRows : StoreInsert(uid, row)
    \/ \E uid \in DOMAIN profiles, i \in 1..Len(offers), row \in OfferRows :
          StoreUpdate(uid, i, row)
    \/ \E uid \in DOMAIN profiles, i \in 1..Len(offers) : StoreDelete(uid, i)

SpecPolicy == InitPolicy /\ [][NextPolicy]_vars

\* ================================================================== claims
MutuallyApproved(i) == offers[i].requester_approved /\ offers[i].helper_approved

Refused == "Both parties must approve the offer before payment"

\* The commission rows persisted for checkout session s.
CommissionsOf(s) == {i \in 1..Len(commissions) : commissions[i].stripe_payment_intent_id = s}

\* The transfers asked for by events of checkout session s.
TransfersOf(s) == {k \in 1..Len(transfers) : transfers[k].session = s}

\* C1: process-payment creates a checkout session and a commission, and
\* returns a checkout URL, only for an offer with requester_approved and
\* helper_approved both true; a request for an offer with a flag false is
\* answered with the error and creates neither.
C1_PaymentNeedsMutualApproval ==
    /\ [](/\ \A s \in 1..Len(sessions) : MutuallyApproved(sessions[s].help_offer_id)
          /\ \A c \in 1..Len(commissions) : MutuallyApproved(commissions[c].help_offer_id)
          /\ (pay.pc = "responded" /\ pay.response = "url")
                => MutuallyApproved(pay.help_offer_id))
    /\ [][(pay.pc = "idle" /\ pay'.pc # "idle" /\ ~MutuallyApproved(pay'.help_offer_id))
            => /\ pay'.pc = "responded"
               /\ pay'.response = Refused
               /\ sessions' = sessions
               /\ commissions' = commissions
               /\ urls' = urls]_vars

\* C1 witness: a request for an offer the requester has not approved was
\* answered with the error, and the processor holds no session.
C1_Witness ==
    /\ pay.pc = "responded"
    /\ pay.response = Refused
    /\ ~offers[pay.help_offer_id].requester_approved
    /\ sessions = <<>>
    /\ commissions = <<>>

\* C2 (as claimed): no checkout session is created and no commission is
\* inserted by a request that read its need with status completed.
C2_CompletedNeedRejected ==
    [][(Len(sessions') > Len(sessions) \/ Len(commissions') > Len(commissions))
          => pay.need_status # "completed"]_vars

\* The commission and need state of checkout session s is settled: its
\* transfer is made, its commission rows and its need are completed.
Settled(s) ==
    /\ TransfersOf(s) # {}
    /\ CommissionsOf(s) # {}
    /\ \A i \in CommissionsOf(s) : commissions[i].status = "completed"
    /\ needs[sessions[s].need_id].status = "completed"

\* C3 (as claimed): with deliveries one after the other, a second handling
\* of checkout.session.completed for a settled session makes no transfer
\* and leaves the commissions and the needs as the first handling left them.
C3_SecondDeliveryIsNoOp ==
    [][\A w \in Workers :
          (hook[w].pc = "profile_read" /\ Settled(hook[w].ev.session))
             => (transfers' = transfers /\ commissions' = commissions /\ needs' = needs)]_vars

\* C4 (as claimed): whatever the interleaving of the deliveries, at most one
\* transfer is created for the checkout session of a commission.
C4_AtMostOneTransfer ==
    \A i \in 1..Len(commissions) :
        Cardinality(TransfersOf(commissions[i].stripe_payment_intent_id)) <= 1

\* C5 (as claimed): once the request has answered, a checkout session exists
\* exactly with a commission row for it; a returned URL has its row.
C5_SessionAndCommissionTogether ==
    /\ \A s \in 1..Len(sessions) :
          (pay.pc = "insert_commission" /\ pay.session = s) \/ CommissionsOf(s) # {}
    /\ \A i \in 1..Len(commissions) :
          commissions[i].stripe_payment_intent_id \in 1..Len(sessions)
    /\ \A s \in urls : CommissionsOf(s) # {}

\* C6: a processor call that fails leaves needs, offers, profiles and
\* commissions as they were, and every row that rests on a processor object
\* was written after the processor created the object.
C6_FailedCallLeavesLedger ==
    /\ [](/\ \A i \in 1..Len(commissions) :
               /\ commissions[i].stripe_payment_intent_id \in 1..Len(sessions)
               /\ commissions[i].status = "completed"
                     => commissions[i].stripe_transfer_id \in 1..Len(transfers)
          /\ \A n \in NeedIds :
               needs[n].status = "completed"
                  => \E k \in 1..Len(transfers) : transfers[k].need_id = n
          /\ \A u \in Users :
               profiles[u].stripe_account_id # Null
                  => profiles[u].stripe_account_id \in 1..Len(accounts))
    /\ [][(pay.pc = "create_session" /\ pay'.pc = "responded")
            => /\ pay'.response = "processor error"
               /\ sessions' = sessions
               /\ <<needs, offers, profiles, commissions>>' =
                      <<needs, offers, profiles, commissions>>]_vars
    /\ [][\A w \in Workers :
            (/\ hook[w].pc = "profile_read"
             /\ hook[w].helperProfile.stripe_account_id # Null
             /\ hook[w].helperProfile.stripe_onboarding_complete
             /\ hook'[w].pc = "idle")
            => /\ transfers' = transfers
               /\ <<needs, offers, profiles, commissions>>' =
                      <<needs, offers, profiles, commissions>>]_vars
    /\ [][(conn.pc = "create_account" /\ conn'.pc = "idle")
            => /\ accounts' = accounts
               /\ profiles' = profiles]_vars

\* C6 witness: the session call of a request failed, with a commission of an
\* earlier request in the ledger.
C6_Witness ==
    /\ pay.pc = "responded"
    /\ pay.response = "processor error"
    /\ Len(commissions) = 1
    /\ Len(sessions) = 1

\* C7: when the handler of checkout.session.completed has read a helper
\* profile without account id or with stripe_onboarding_complete false, its
\* next step sets the commission of the session to transfer_pending, leaves
\* every need and makes no transfer.
C7_NoAccountMeansTransferPending ==
    [][\A w \in Workers :
          (/\ hook[w].pc = "profile_read"
           /\ (\/ hook[w].helperProfile.stripe_account_id = Null
               \/ ~hook[w].helperProfile.stripe_onboarding_complete)
           /\ hook'[w] # hook[w])
          => /\ hook'[w].pc = "idle"
             /\ Len(commissions') = Len(commissions)
             /\ \A i \in CommissionsOf(hook[w].ev.session) :
                   commissions'[i].status = "transfer_pending"
             /\ needs' = needs
             /\ transfers' = transfers]_vars

\* C7 witness: a commission is transfer_pending for a helper whose account
\* exists with onboarding incomplete; the need is open, no transfer is made.
C7_Witness ==
    /\ \E i \in 1..Len(commissions) :
          /\ commissions[i].status = "transfer_pending"
          /\ profiles[commissions[i].helper_user_id].stripe_account_id # Null
          /\ ~profiles[commissions[i].helper_user_id].stripe_onboarding_complete
          /\ needs[commissions[i].need_id].status = "open"
    /\ transfers = <<>>
    /\ \A w \in Workers : hook[w].pc = "idle"

\* C8: handling account.updated for a user's account leaves that user's
\* stripe_onboarding_complete equal to details_submitted and payouts_enabled
\* of the event, and changes no other profile.
C8_OnboardingFlagIsConjunction ==
    [][profiles' # profiles =>
       \A w \in Workers, a \in 1..Len(accounts), ds \in BOOLEAN, pe \in BOOLEAN :
          HookAccountUpdated(w, [type |-> "account.updated", account |-> a,
                                 details_submitted |-> ds, payouts_enabled |-> pe])
          => /\ profiles'[accounts[a].user_id].stripe_onboarding_complete
                   = ((ds = TRUE) /\ (pe = TRUE))
             /\ \A u \in Users \ {accounts[a].user_id} : profiles'[u] = profiles[u]]_vars

\* C8 witness: the flag of a user with a saved account is true.
C8_Witness ==
    \E u \in Users :
        /\ profiles[u].stripe_account_id # Null
        /\ profiles[u].stripe_onboarding_complete

\* C9: the commission and the helper amount of the payment calculation add
\* up to the original amount, to the minor unit; a budget of 200.00 gives a
\* commission of 20.00 and a helper amount of 180.00.
C9_SplitAddsUp ==
    calc.done =>
        /\ calc.out.commissionAmount + calc.out.helperAmount = calc.out.originalAmount
        /\ calc.budget # Null
              => /\ calc.out.originalAmount = calc.budget * 10
                 /\ MathRoundCents(calc.out.commissionAmount + calc.out.helperAmount)
                       = calc.budget
        /\ calc.budget = 20000
              => /\ calc.out.commissionAmount = 20000
                 /\ calc.out.helperAmount = 180000

\* C9 witness: the calculation has run on a budget of 200.00.
C9_Witness ==
    /\ calc.done
    /\ calc.budget = 20000
    /\ calc.out.commissionAmount = 20000
    /\ calc.out.helperAmount = 180000

\* original_amount * rate to two decimals, half up, in milli.
RoundedCommission(original_amount) ==
    (((original_amount * CommissionRatePct) + 500) \div 1000) * 10

\* C10 (as claimed): the commission persisted and the amounts of the session
\* metadata are whole minor units, the commission the half-up rounding of
\* original_amount * rate.
C10_CommissionRoundedToMinorUnit ==
    /\ \A i \in 1..Len(commissions) :
          commissions[i].commission_amount = RoundedCommission(commissions[i].original_amount)
    /\ \A s \in 1..Len(sessions) :
          /\ sessions[s].commission_amount % 10 = 0
          /\ sessions[s].helper_amount % 10 = 0

\* The two pairs of requests on offer i, in their two orders.
RequesterThenHelper(i) == HelperApproves(RequesterApproves(offers, i), i)

HelperThenRequester(i) == RequesterApproves(HelperApproves(offers, i), i)

\* C11: from every offer state, the requester's approval followed by the
\* helper's leaves the same table as the helper's followed by the
\* requester's: the offer with both flags true, every other row as it was.
C11_ApprovalOrderIrrelevant ==
    \A i \in 1..Len(offers) :
        /\ RequesterThenHelper(i) = HelperThenRequester(i)
        /\ RequesterThenHelper(i)[i].requester_approved
        /\ RequesterThenHelper(i)[i].helper_approved
        /\ RequesterThenHelper(i)[i].need_id = offers[i].need_id
        /\ RequesterThenHelper(i)[i].helper_user_id = offers[i].helper_user_id
        /\ \A j \in 1..Len(offers) : j # i => RequesterThenHelper(i)[j] = offers[j]

\* C11 witness: the offer stored with both flags false has both flags true,
\* which only the two approvals give it.
C11_Witness ==
    /\ offers[1].requester_approved
    /\ offers[1].helper_approved
    /\ Len(offers) = 1

\* C12: no approval is lost.  A flag that is stored true stays true in every
\* step, whichever request comes next, and a request stores its own flag
\* true and leaves the other party's flag as it finds it.
C12_NoLostApproval ==
    /\ [][\A i \in 1..Len(offers) :
             /\ offers[i].requester_approved => offers'[i].requester_approved
             /\ offers[i].helper_approved => offers'[i].helper_approved]_vars
    /\ [](\A i \in 1..Len(offers) :
             /\ RequesterApproves(offers, i)[i].requester_approved
             /\ RequesterApproves(offers, i)[i].helper_approved = offers[i].helper_approved
             /\ HelperApproves(offers, i)[i].helper_approved
             /\ HelperApproves(offers, i)[i].requester_approved = offers[i].requester_approved)

\* C12 witness: both requests on the offer that was stored with both flags
\* false have been applied while another neighbour's offer waits on the
\* same need.
C12_Witness ==
    /\ Len(offers) = 2
    /\ offers[1].requester_approved /\ offers[1].helper_approved
    /\ offers[2].need_id = offers[1].need_id
    /\ ~offers[2].requester_approved

\* C13: no two help_offers rows share (need_id, helper_user_id), and an
\* insert for a pair that is taken leaves the table as it is.
C13_OneOfferPerHelperAndNeed ==
    /\ [](\A i, j \in 1..Len(offers) :
             (offers[i].need_id = offers[j].need_id
              /\ offers[i].helper_user_id = offers[j].helper_user_id) => i = j)
    /\ [][\A u \in DOMAIN profiles, n \in DOMAIN needs :
             ((\E i \in 1..Len(offers) :
                  offers[i].need_id = n /\ offers[i].helper_user_id = u)
              /\ handleOfferHelp(u, n))
             => offers' = offers]_vars

\* C13 witness: every pair of a need and a helper has its offer, four rows.
C13_Witness ==
    /\ Len(offers) = 4
    /\ \A n \in DOMAIN needs, u \in {"bob", "carol"} :
          \E i \in 1..Len(offers) : offers[i].need_id = n /\ offers[i].helper_user_id = u

\* C14 (as claimed): whatever inserts and updates the policies allow, no
\* help_offers row has the owner of its need as helper_user_id.
C14_OwnerNeverHelper ==
    \A i \in 1..Len(offers) : offers[i].helper_user_id # needs[offers[i].need_id].user_id

\* C15 (as claimed): a request that stores requester_approved true where it
\* was not is the request of the owner of the need, and a request that
\* changes helper_approved is the request of the helper of the offer.
C15_FlagsByEntitledParty ==
    [][/\ \A uid \in DOMAIN profiles, row \in OfferRows :
            (StoreInsert(uid, row) /\ offers' # offers /\ row.requester_approved)
               => uid = needs[row.need_id].user_id
       /\ \A uid \in DOMAIN profiles, i \in 1..Len(offers), row \in OfferRows :
            (StoreUpdate(uid, i, row) /\ offers' # offers)
               => /\ (row.requester_approved /\ ~offers[i].requester_approved)
                       => uid = needs[offers[i].need_id].user_id
                  /\ (row.helper_approved # offers[i].helper_approved)
                       => uid = offers[i].helper_user_id]_vars

SettledOffers(n) ==
    {commissions[c].help_offer_id : c \in {d \in 1..Len(commissions) :
        commissions[d].need_id = n /\ commissions[d].status = "completed"}}

\* C17 (as claimed): of the offers of a need, at most one has a commission
\* with status completed.
C17_OneSettledOfferPerNeed ==
    \A n \in DOMAIN needs : Cardinality(SettledOffers(n)) <= 1

\* C18 (as claimed): a commission is completed exactly when its need is
\* completed: no state has the commission of a transfer completed with the
\* need not completed, or a need completed with a commission of it that a
\* transfer was made for not completed.
C18_CommissionAndNeedTogether ==
    /\ \A c \in 1..Len(commissions) :
          commissions[c].status = "completed"
             => needs[commissions[c].need_id].status = "completed"
    /\ \A k \in 1..Len(transfers) :
          needs[transfers[k].need_id].status = "completed"
             => \A c \in CommissionsOf(transfers[k].session) :
                   commissions[c].status = "completed"

\* C19 (as claimed): a payment request is past its checks, and a session or
\* a commission is created, only for an offer of the need of the request.
C19_OfferBelongsToNeed ==
    /\ pay.pc \in {"create_session", "insert_commission"}
          => offers[pay.help_offer_id].need_id = pay.need_id
    /\ \A s \in 1..Len(sessions) :
          offers[sessions[s].help_offer_id].need_id = sessions[s].need_id
    /\ \A c \in 1..Len(commissions) :
          offers[commissions[c].help_offer_id].need_id = commissions[c].need_id

\* C20 (as claimed): a commission that is transfer_pending while its helper
\* has an account with the onboarding flag true is eventually completed (or
\* the flag is taken back before it is).
C20_PendingEventuallySettled ==
    \A c \in 1..MaxCreated :
        (/\ c \in 1..Len(commissions)
         /\ commissions[c].status = "transfer_pending"
         /\ profiles[commissions[c].helper_user_id].stripe_account_id # Null
         /\ profiles[commissions[c].helper_user_id].stripe_onboarding_complete)
        ~> (/\ c \in 1..Len(commissions)
            /\ \/ commissions[c].status = "completed"
               \/ ~profiles[commissions[c].helper_user_id].stripe_onboarding_complete)

\* C21 (as claimed): a commission that is completed keeps its status, its
\* transfer reference and its completion time in every later step, whatever
\* event is handled and whatever the helper's profile says by then.
C21_CompletedStaysCompleted ==
    [][\A c \in 1..Len(commissions) :
          commissions[c].status = "completed"
             => /\ commissions'[c].status = "completed"
                /\ commissions'[c].stripe_transfer_id = commissions[c].stripe_transfer_id
                /\ commissions'[c].completed_at = commissions[c].completed_at]_vars

\* C22 (as claimed): a step of the handler of checkout.session.completed for
\* session S leaves every commission that was not persisted for S as it was.
C22_OnlyCommissionOfSession ==
    [][\A w \in Workers :
          (hook[w].pc \in {"profile_read", "transferred"} /\ hook'[w] # hook[w])
             => \A c \in 1..Len(commissions) :
                   c \notin CommissionsOf(hook[w].ev.session)
                      => commissions'[c] = commissions[c]]_vars

\* C28 (as claimed): the handler creates a transfer only when a commission
\* with status pending or transfer_pending exists for the session or the
\* offer of the event it handles.
C28_TransferNeedsCommission ==
    [][\A w \in Workers :
          (/\ hook[w].pc = "profile_read"
           /\ hook'[w] # hook[w]
           /\ Len(transfers') > Len(transfers))
          => \E c \in 1..Len(commissions) :
                /\ \/ commissions[c].stripe_payment_intent_id = hook[w].ev.session
                   \/ commissions[c].help_offer_id = sessions[hook[w].ev.session].help_offer_id
                /\ commissions[c].status \in {"pending", "transfer_pending"}]_vars

\* C29 (as claimed): for every transfer of a settled payment, the amount
\* transferred is at most the amount charged by the checkout session, and
\* the amount charged less the amount transferred is the commission_amount
\* of the commission of the session (amounts in minor units, the commission
\* held in thousandths).
C29_FundsConserved ==
    \A k \in 1..Len(transfers) :
        /\ transfers[k].amount <= sessions[transfers[k].session].unit_amount
        /\ \A c \in CommissionsOf(transfers[k].session) :
              (sessions[transfers[k].session].unit_amount - transfers[k].amount) * 10
                 = commissions[c].commission_amount

\* C30 (as claimed): the processor holds at most one connected account per
\* user, a saved stripe_account_id is the account of its user, and a request
\* of a user who has a stripe_account_id creates no account and writes no
\* profile.
C30_OneAccountPerUser ==
    /\ [](\A u \in Users :
             /\ Cardinality({a \in 1..Len(accounts) : accounts[a].user_id = u}) <= 1
             /\ profiles[u].stripe_account_id # Null
                   => /\ profiles[u].stripe_account_id \in 1..Len(accounts)
                      /\ accounts[profiles[u].stripe_account_id].user_id = u)
    /\ [][\A u \in Users :
             (/\ profiles[u].stripe_account_id # Null
              /\ conn' # conn
              /\ \/ conn.pc = "idle" /\ ConnRequest(u)
                 \/ conn.pc # "idle" /\ conn.user = u)
             => accounts' = accounts /\ profiles' = profiles]_vars

\* C25: approving again is a no-op.  The requester's update on an offer whose
\* requester_approved is true, and the helper's update on an offer whose
\* helper_approved is true, leave the whole table as it is: both flags of
\* the offer and every other offer.
C25_ReapprovalIsNoOp ==
    /\ [](\A i \in 1..Len(offers) :
             /\ offers[i].requester_approved => RequesterApproves(offers, i) = offers
             /\ offers[i].helper_approved => HelperApproves(offers, i) = offers)
    /\ [][\A i \in 1..Len(offers) :
             /\ (offers[i].requester_approved /\ handleApproveOffer(i)) => offers' = offers
             /\ (offers[i].helper_approved /\ handleApproveFromHelper(i)) => offers' = offers]_vars

\* C25 witness: three offers, the first approved by the requester and not by
\* its helper, the second by its helper and not by the requester: the states
\* in which each party can approve again.
C25_Witness ==
    /\ Len(offers) = 3
    /\ offers[1].requester_approved /\ ~offers[1].helper_approved
    /\ offers[2].helper_approved /\ ~offers[2].requester_approved

\* C26 (as claimed): a delete that removes a help_offers row is the request
\* of the helper of the row, and the row is not mutually approved.
C26_WithdrawOnlyBeforeMutual ==
    [][\A uid \in DOMAIN profiles, i \in 1..Len(offers) :
          (StoreDelete(uid, i) /\ offers' # offers)
             => /\ uid = offers[i].helper_user_id
                /\ ~(offers[i].requester_approved /\ offers[i].helper_approved)]_vars

\* C23: an event of a kind other than checkout.session.completed and
\* account.updated is answered with status 200, and from its arrival to its
\* response no transfer is made and no commission, need, profile or
\* connected account changes.
C23_UnknownEventIgnored ==
    /\ [][\A w \in DOMAIN hook :
             (/\ hook[w].pc = "idle"
              /\ hook'[w].pc # "idle"
              /\ hook'[w].ev.type \notin {"checkout.session.completed", "account.updated"})
             => /\ hook'[w].pc = "responded"
                /\ hook'[w].status = 200
                /\ <<needs, commissions, profiles, accounts, transfers>>'
                      = <<needs, commissions, profiles, accounts, transfers>>]_vars
    /\ [][\A w \in DOMAIN hook :
             (hook[w].pc = "responded" /\ hook'[w] # hook[w])
             => /\ hook'[w].pc = "idle"
                /\ <<needs, commissions, profiles, accounts, transfers>>'
                      = <<needs, commissions, profiles, accounts, transfers>>]_vars
    /\ [](\A w \in DOMAIN hook : hook[w].pc = "responded" => hook[w].status = 200)

\* C23 witness: a transfer.created event was answered with 200 while the
\* commission of a paid session waits as pending, no transfer made.
C23_Witness ==
    /\ hook["w1"].pc = "responded"
    /\ hook["w1"].ev.type = "transfer.created"
    /\ hook["w1"].status = 200
    /\ Len(commissions) = 1
    /\ commissions[1].status = "pending"
    /\ transfers = <<>>

\* One of the four expected metadata fields is absent.
LacksField(metadata) ==
    \/ metadata.need_id = Undefined
    \/ metadata.help_offer_id = Null
    \/ metadata.helper_user_id = Undefined
    \/ metadata.helper_amount = Null

\* C24 (as claimed): the handler of a checkout.session.completed event whose
\* metadata lacks need_id, help_offer_id, helper_user_id or helper_amount
\* makes no transfer and changes no commission and no need.
C24_MissingMetadataSkipped ==
    [][\A w \in DOMAIN hook :
          (/\ hook[w].pc \in {"profile_read", "transferred", "commission_updated"}
           /\ LacksField(Metadata(hook[w].ev))
           /\ hook'[w] # hook[w])
          => /\ transfers' = transfers
             /\ commissions' = commissions
             /\ needs' = needs]_vars

\* A notification for user u that refers to offer i.
NotifiedOfOffer(u, i) ==
    \E k \in 1..Len(notifications) :
        notifications[k].user_id = u /\ notifications[k].related_offer_id = i

\* C27 (as claimed): an offer that is mutually approved leads to a
\* notification for its helper and one for the owner of its need, and a
\* commission that is completed leads to a notification about its need.
C27_ApprovalAndSettlementNotify ==
    \A i \in 1..MaxCreated :
        /\ (i \in 1..Len(offers) /\ MutuallyApproved(i))
              ~> (/\ NotifiedOfOffer(offers[i].helper_user_id, i)
                  /\ NotifiedOfOffer(needs[offers[i].need_id].user_id, i))
        /\ (i \in 1..Len(commissions) /\ commissions[i].status = "completed")
              ~> (\E k \in 1..Len(notifications) :
                     notifications[k].related_need_id = commissions[i].need_id)

====
